---- MODULE Spec2Model ----
(***************************************************************************)
(* Model of the queue consumer of src/main.ts (a Cloudflare Worker): for   *)
(* every message of a batch it fetches the user's listing, fetches the     *)
(* content of the selected urls in groups, and stores the aggregated       *)
(* url -> content mapping in the KV namespace under "daily/" + username.   *)
(*                                                                         *)
(* A step of the model is the code that runs between two awaits: a         *)
(* JavaScript continuation runs to its next await without interleaving.    *)
(* Pending awaits (fetches and the KV put) are the requests in `net`; the  *)
(* environment resolves them one at a time, in any order.                  *)
(***************************************************************************)
EXTENDS Naturals, Sequences, FiniteSets, TLC

VARIABLES
    batch,       \* batch[h]: the usernames of batch.messages, in order
    pc,          \* pc[h]: the await (or loop head) invocation h stands at
    mi,          \* mi[h]: 1-based index of the message the for-of loop is at
    listing,     \* listing[h]: the listing as parsed from the response (line 95)
    userData,    \* userData[h]: the array after the in-place reverse() (line 104)
    selected,    \* selected[h]: the argument handed to chunkArray (line 104)
    urlChunks,   \* urlChunks[h]: the groups (line 103)
    ci,          \* ci[h]: 1-based index of the group the inner loop is at
    promises,    \* promises[h]: the promises of the current group (line 109)
    contentMap,  \* contentMap[h]: the mapping being built, in insertion order
    kv,          \* TWEET_KV: key -> stored text
    net,         \* the requests in flight
    answered,    \* history: answered[h][j] is the kind of answer message j's listing got
    status,      \* history: status[h][j] is how message j ended
    fetched,     \* history: per position of selected[h], the fetches started and the answer
    puts,        \* history: the puts the store performed, in order
    calls,       \* history: calls[h] counts the listing fetches and the puts h issued
    cArray, cSize, cChunks, cPc,  \* the harness that applies chunkArray to arbitrary inputs
    epc,         \* where the enqueue run (queueUsers and the handler awaiting it) stands
    via,         \* the handler that awaits the current enqueue run: "http" or "scheduled"
    users,       \* users: the user listing as parsed (line 33)
    ui,          \* 1-based index of the username the for-of loop of queueUsers is at
    queue,       \* xymake_queue: the messages sent, in order
    triggers,    \* the number of triggers (requests and scheduled events) handled
    runs,        \* history: the enqueue runs started, with what each called and got
    responses    \* history: the bodies of the HTTP responses returned

vars == <<batch, pc, mi, listing, userData, selected, urlChunks, ci, promises,
          contentMap, kv, net, answered, status, fetched, puts, calls,
          cArray, cSize, cChunks, cPc,
          epc, via, users, ui, queue, triggers, runs, responses>>

handlerVars == <<batch, pc, mi, listing, userData, selected, urlChunks, ci, promises,
                 contentMap, kv, net, answered, status, fetched, puts, calls>>

chunkVars == <<cArray, cSize, cChunks, cPc>>

enqueueVars == <<epc, via, users, ui, queue, triggers, runs, responses>>

-----------------------------------------------------------------------------
(* Program constants *)

MAX_PER_USER == 25

FetchGroupSize == 5

(* Bounds of the inputs *)

LongLen == 27

MidLen == 7

MaxSeqLen == 6

MaxChunkSize == 5

-----------------------------------------------------------------------------
(* Values *)

Null == "<null>"

Unsent == "<unsent>"

Pending == "<pending>"

Min(a, b) == IF a < b THEN a ELSE b

Last(s) == s[Len(s)]

Invocations == {"q1", "q2"}

UrlNames == <<"u01", "u02", "u03", "u04", "u05", "u06", "u07", "u08", "u09", "u10",
              "u11", "u12", "u13", "u14", "u15", "u16", "u17", "u18", "u19", "u20",
              "u21", "u22", "u23", "u24", "u25", "u26", "u27", "u28", "u29", "u30">>

Items(urls) == [k \in 1..Len(urls) |-> [url |-> urls[k]]]

OkResponse(body) == [kind |-> "ok", body |-> body]

StatusResponse(body) == [kind |-> "status", body |-> body]

ThrowResponse(body) == [kind |-> "throw", body |-> body]

(* What the listing service may answer for a username. *)
ListingService(username) ==
    CASE username = "alice" ->
            { OkResponse(Items(<<"x", "y">>)), OkResponse(Items(<<>>)),
              StatusResponse(Items(<<>>)), ThrowResponse(Items(<<>>)) }
      [] username = "bob" ->
            { OkResponse(Items(SubSeq(UrlNames, 1, MidLen))),
              StatusResponse(Items(<<>>)), ThrowResponse(Items(<<>>)) }
      [] username = "carol" ->
            { OkResponse(Items(SubSeq(UrlNames, 1, LongLen))) }
      [] username = "dave" ->
            { OkResponse(Items(<<"x", "y", "x">>)) }

FlakyUrls == {"u01", "u03", "u06"}

(* What the server of a url may answer. *)
Web(url) ==
    CASE url = "x" -> { OkResponse("X1"), OkResponse("X2"),
                        StatusResponse("E404"), ThrowResponse("") }
      [] url = "y" -> { OkResponse("Y1"), OkResponse(""),
                        StatusResponse("E404"), ThrowResponse("") }
      [] url \in FlakyUrls -> { OkResponse("B"), StatusResponse("E500"), ThrowResponse("") }
      [] OTHER -> { OkResponse("B") }

Batches == { <<>>, <<"alice">>, <<"bob">>, <<"carol">>, <<"dave">>,
             <<"alice", "alice">>, <<"dave", "alice">>, <<"alice", "bob", "alice">> }

-----------------------------------------------------------------------------
(* Array helpers, as JavaScript computes them (0-based, end exclusive) *)

Slice(array, start, end) ==
    SubSeq(array, Min(start, Len(array)) + 1, Min(end, Len(array)))

Reverse(array) == [k \in 1..Len(array) |-> array[Len(array) - k + 1]]

RECURSIVE chunkLoop(_, _, _, _)
chunkLoop(array, chunkSize, i, chunks) ==
    IF i < Len(array)
    THEN chunkLoop(array, chunkSize, i + chunkSize,
                   Append(chunks, Slice(array, i, i + chunkSize)))
    ELSE chunks

(* Mutant: the array is handed back as one chunk, whatever the size. *)
chunkArray_Whole(array, chunkSize) == IF array = <<>> THEN <<>> ELSE <<array>>

(* Mutant: the loop condition is i <= array.length. *)
RECURSIVE chunkLoopInclusive(_, _, _, _)
chunkLoopInclusive(array, chunkSize, i, chunks) ==
    IF i <= Len(array)
    THEN chunkLoopInclusive(array, chunkSize, i + chunkSize,
                            Append(chunks, Slice(array, i, i + chunkSize)))
    ELSE chunks

chunkArray_Inclusive(array, chunkSize) == chunkLoopInclusive(array, chunkSize, 0, <<>>)

chunkArray(array, chunkSize) == chunkLoop(array, chunkSize, 0, <<>>)

(* Mutant: the listing is reversed and not truncated. *)
Select_NoSlice(data) == Reverse(data)

(* Mutant: the listing is truncated first and reversed after. *)
Select_TruncateFirst(data) == Reverse(Slice(data, 0, MAX_PER_USER))

Select(data) == Slice(Reverse(data), 0, MAX_PER_USER)

-----------------------------------------------------------------------------
(* The content map: a JavaScript object with string keys keeps its keys in  *)
(* insertion order; assigning an existing key keeps the key's place.        *)

HasKey(cm, url) == \E k \in 1..Len(cm) : cm[k].url = url

(* Mutant: a key that is already present keeps its first content. *)
MapSet_KeepFirst(cm, url, content) ==
    IF HasKey(cm, url)
    THEN cm
    ELSE Append(cm, [url |-> url, content |-> content])

MapSet(cm, url, content) ==
    IF HasKey(cm, url)
    THEN [k \in 1..Len(cm) |->
            IF cm[k].url = url THEN [url |-> url, content |-> content] ELSE cm[k]]
    ELSE Append(cm, [url |-> url, content |-> content])

RECURSIVE FoldResults(_, _)
FoldResults(cm, results) ==
    IF results = <<>> THEN cm
    ELSE FoldResults(
            IF Head(results).content # Null
            THEN MapSet(cm, Head(results).url, Head(results).content)
            ELSE cm,
            Tail(results))

(* JSON.stringify of a flat string -> string object, as a token sequence:   *)
(* { k : v , k : v }                                                        *)
RECURSIVE StringifyEntries(_)
StringifyEntries(cm) ==
    IF cm = <<>> THEN <<>>
    ELSE <<Head(cm).url, ":", Head(cm).content>>
         \o (IF Tail(cm) = <<>> THEN <<>> ELSE <<",">>)
         \o StringifyEntries(Tail(cm))

JSONstringify(cm) == <<"{">> \o StringifyEntries(cm) \o <<"}">>

(* Mutant: the key does not carry the username. *)
StorageKey_Shared(username) == "daily/" \o "latest"

StorageKey(username) == "daily/" \o username

(* Mutant: the put merges the entries of the value already stored that the *)
(* new value lacks (a read-modify-write of the key).                       *)
KVPut_Merge(store, key, value) ==
    [k \in (DOMAIN store) \cup {key} |->
        IF k # key THEN store[k]
        ELSE IF key \notin DOMAIN store \/ Len(store[key]) = 2 THEN value
        ELSE IF Len(value) = 2 THEN store[key]
        ELSE SubSeq(value, 1, Len(value) - 1) \o <<",">> \o Tail(store[key])]

KVPut(store, key, value) ==
    [k \in (DOMAIN store) \cup {key} |-> IF k = key THEN value ELSE store[k]]

(* Mutant: the status of the response is not looked at; the body of an     *)
(* error response is kept as content.                                      *)
ItemResult_NoStatusCheck(url, r) ==
    IF r.kind # "throw"
    THEN [url |-> url, content |-> r.body]
    ELSE [url |-> url, content |-> Null]

(* The async callback of chunk.map: the outcome of one content fetch. *)
ItemResult(url, r) ==
    IF r.kind = "ok"
    THEN [url |-> url, content |-> r.body]
    ELSE [url |-> url, content |-> Null]

-----------------------------------------------------------------------------
(* Requests in flight *)

Request(h, kind, msg, grp, pos, target, value) ==
    [inv |-> h, kind |-> kind, msg |-> msg, grp |-> grp, pos |-> pos,
     target |-> target, value |-> value]

ListingRequest(h) == Request(h, "listing", mi[h], 0, 0, batch[h][mi[h]], <<>>)

ContentRequest(h, k) ==
    Request(h, "content", mi[h], ci[h], k, urlChunks[h][ci[h]][k].url, <<>>)

PutRequest(h) ==
    Request(h, "put", mi[h], 0, 0, StorageKey(batch[h][mi[h]]),
            JSONstringify(contentMap[h]))

(* 1-based position in selected[h] of item k of the current group *)
Position(h, k) == (ci[h] - 1) * FetchGroupSize + k

-----------------------------------------------------------------------------
(* The state before any invocation has run *)

PriorStore ==
    ("daily/alice" :> <<"{", "x", ":", "X0", ",", "w", ":", "W0", "}">>)
    @@ ("daily/erin" :> <<"{", "z", ":", "Z0", "}">>)

InitHandlers(started) ==
    /\ batch \in [Invocations -> Batches]
    /\ \A h \in Invocations \ started : batch[h] = <<>>
    /\ pc = [h \in Invocations |-> IF h \in started THEN "loop" ELSE "idle"]
    /\ mi = [h \in Invocations |-> 1]
    /\ listing = [h \in Invocations |-> <<>>]
    /\ userData = [h \in Invocations |-> <<>>]
    /\ selected = [h \in Invocations |-> <<>>]
    /\ urlChunks = [h \in Invocations |-> <<>>]
    /\ ci = [h \in Invocations |-> 1]
    /\ promises = [h \in Invocations |-> <<>>]
    /\ contentMap = [h \in Invocations |-> <<>>]
    /\ kv = PriorStore
    /\ net = {}
    /\ answered = [h \in Invocations |-> <<>>]
    /\ status = [h \in Invocations |-> <<>>]
    /\ fetched = [h \in Invocations |-> <<>>]
    /\ puts = <<>>
    /\ calls = [h \in Invocations |-> [listing |-> 0, put |-> 0]]

ChunkIdle ==
    /\ cArray = <<>>
    /\ cSize = 1
    /\ cChunks = <<>>
    /\ cPc = "off"

(* No trigger arrives: the enqueue side stays as constructed. *)
EnqueueOff ==
    /\ epc = "off"
    /\ via = "none"
    /\ users = <<>>
    /\ ui = 1
    /\ queue = <<>>
    /\ triggers = 0
    /\ runs = <<>>
    /\ responses = <<>>

Init == InitHandlers({"q1"}) /\ ChunkIdle /\ EnqueueOff

-----------------------------------------------------------------------------
(* The queue handler *)

(* The end of one iteration of the for-of loop over batch.messages. *)
MessageEnd(h, how) ==
    /\ status' = [status EXCEPT ![h] = Append(@, how)]
    /\ mi' = [mi EXCEPT ![h] = @ + 1]
    /\ pc' = [pc EXCEPT ![h] = "loop"]

(* Lines 79-87: the loop takes the next message and fetches its listing. *)
BeginMessage(h) ==
    /\ pc[h] = "loop"
    /\ mi[h] <= Len(batch[h])
    /\ net' = net \cup {ListingRequest(h)}
    /\ pc' = [pc EXCEPT ![h] = "listing"]
    /\ UNCHANGED <<chunkVars, enqueueVars>>
    /\ UNCHANGED <<batch, mi, listing, userData, selected, urlChunks, ci, promises,
                   contentMap, kv, answered, status, fetched, puts>>
    /\ calls' = [calls EXCEPT ![h].listing = @ + 1]

(* Line 151: the loop is exhausted and the handler returns. *)
Return(h) ==
    /\ pc[h] = "loop"
    /\ mi[h] > Len(batch[h])
    /\ pc' = [pc EXCEPT ![h] = "done"]
    /\ UNCHANGED <<chunkVars, enqueueVars>>
    /\ UNCHANGED <<batch, mi, listing, userData, selected, urlChunks, ci, promises,
                   contentMap, kv, net, answered, status, fetched, puts, calls>>

(* Mutant: contentMap is declared outside the loop and never emptied. *)
ListingOk_KeepMap(h, r) ==
    /\ pc[h] = "listing"
    /\ ListingRequest(h) \in net
    /\ r.kind = "ok"
    /\ net' = net \ {ListingRequest(h)}
    /\ listing' = [listing EXCEPT ![h] = r.body]
    /\ userData' = [userData EXCEPT ![h] = Reverse(r.body)]
    /\ selected' = [selected EXCEPT ![h] = Select(r.body)]
    /\ urlChunks' = [urlChunks EXCEPT ![h] = chunkArray(Select(r.body), FetchGroupSize)]
    /\ ci' = [ci EXCEPT ![h] = 1]
    /\ promises' = [promises EXCEPT ![h] = <<>>]
    /\ fetched' = [fetched EXCEPT ![h] =
                     [p \in 1..Len(Select(r.body)) |->
                         [n |-> 0, kind |-> Unsent, body |-> ""]]]
    /\ pc' = [pc EXCEPT ![h] = "chunks"]
    /\ answered' = [answered EXCEPT ![h] = Append(@, r.kind)]
    /\ UNCHANGED <<chunkVars, enqueueVars>>
    /\ UNCHANGED <<batch, mi, contentMap, kv, status, puts, calls>>

(* Lines 89-106: the listing arrived with a success status and parsed. *)
ListingOk(h, r) ==
    /\ pc[h] = "listing"
    /\ ListingRequest(h) \in net
    /\ r.kind = "ok"
    /\ net' = net \ {ListingRequest(h)}
    /\ listing' = [listing EXCEPT ![h] = r.body]
    /\ userData' = [userData EXCEPT ![h] = Reverse(r.body)]
    /\ contentMap' = [contentMap EXCEPT ![h] = <<>>]
    /\ selected' = [selected EXCEPT ![h] = Select(r.body)]
    /\ urlChunks' = [urlChunks EXCEPT ![h] = chunkArray(Select(r.body), FetchGroupSize)]
    /\ ci' = [ci EXCEPT ![h] = 1]
    /\ promises' = [promises EXCEPT ![h] = <<>>]
    /\ fetched' = [fetched EXCEPT ![h] =
                     [p \in 1..Len(Select(r.body)) |->
                         [n |-> 0, kind |-> Unsent, body |-> ""]]]
    /\ pc' = [pc EXCEPT ![h] = "chunks"]
    /\ UNCHANGED <<chunkVars, enqueueVars>>
    /\ answered' = [answered EXCEPT ![h] = Append(@, r.kind)]
    /\ UNCHANGED <<batch, mi, kv, status, puts, calls>>

(* Mutant: no try/catch around the message; the failure leaves the handler. *)
ListingFail_Uncaught(h, r) ==
    /\ pc[h] = "listing"
    /\ ListingRequest(h) \in net
    /\ r.kind # "ok"
    /\ net' = net \ {ListingRequest(h)}
    /\ answered' = [answered EXCEPT ![h] = Append(@, r.kind)]
    /\ pc' = [pc EXCEPT ![h] = "raised"]
    /\ UNCHANGED <<chunkVars, enqueueVars>>
    /\ UNCHANGED <<batch, mi, listing, userData, selected, urlChunks, ci, promises,
                   contentMap, kv, status, fetched, puts, calls>>

(* Mutant: the status of the listing response is not looked at; an error    *)
(* response is taken for an empty listing and the handler goes on.          *)
ListingFail_NoStatusCheck(h, r) ==
    /\ pc[h] = "listing"
    /\ ListingRequest(h) \in net
    /\ r.kind # "ok"
    /\ net' = net \ {ListingRequest(h)}
    /\ answered' = [answered EXCEPT ![h] = Append(@, r.kind)]
    /\ listing' = [listing EXCEPT ![h] = <<>>]
    /\ userData' = [userData EXCEPT ![h] = <<>>]
    /\ contentMap' = [contentMap EXCEPT ![h] = <<>>]
    /\ selected' = [selected EXCEPT ![h] = <<>>]
    /\ urlChunks' = [urlChunks EXCEPT ![h] = <<>>]
    /\ ci' = [ci EXCEPT ![h] = 1]
    /\ promises' = [promises EXCEPT ![h] = <<>>]
    /\ fetched' = [fetched EXCEPT ![h] = <<>>]
    /\ pc' = [pc EXCEPT ![h] = "chunks"]
    /\ UNCHANGED <<chunkVars, enqueueVars>>
    /\ UNCHANGED <<batch, mi, kv, status, puts, calls>>

(* Lines 85-93, 147-149: the listing fetch threw, or its status was not ok  *)
(* and the handler threw; the catch logs and the loop goes on.              *)
ListingFail(h, r) ==
    /\ pc[h] = "listing"
    /\ ListingRequest(h) \in net
    /\ r.kind # "ok"
    /\ net' = net \ {ListingRequest(h)}
    /\ answered' = [answered EXCEPT ![h] = Append(@, r.kind)]
    /\ MessageEnd(h, "listingFailed")
    /\ UNCHANGED <<chunkVars, enqueueVars>>
    /\ UNCHANGED <<batch, listing, userData, selected, urlChunks, ci, promises,
                   contentMap, kv, fetched, puts, calls>>

(* Lines 108-128: the next group's callbacks all run to their fetch. *)
StartChunk(h) ==
    /\ pc[h] = "chunks"
    /\ ci[h] <= Len(urlChunks[h])
    /\ promises' = [promises EXCEPT ![h] =
                      [k \in 1..Len(urlChunks[h][ci[h]]) |->
                          [state |-> Pending, url |-> urlChunks[h][ci[h]][k].url,
                           content |-> Null]]]
    /\ net' = net \cup {ContentRequest(h, k) : k \in 1..Len(urlChunks[h][ci[h]])}
    /\ fetched' = [fetched EXCEPT ![h] =
                     [p \in DOMAIN @ |->
                         IF \E k \in 1..Len(urlChunks[h][ci[h]]) : p = Position(h, k)
                         THEN [n |-> @[p].n + 1, kind |-> Pending, body |-> ""]
                         ELSE @[p]]]
    /\ pc' = [pc EXCEPT ![h] = "await"]
    /\ UNCHANGED <<chunkVars, enqueueVars>>
    /\ UNCHANGED <<batch, mi, listing, userData, selected, urlChunks, ci, contentMap,
                   kv, answered, status, puts, calls>>

(* Mutant: a failed content fetch is issued again. *)
FetchResolve_RetryOnFailure(h, k, r) ==
    /\ pc[h] = "await"
    /\ k \in 1..Len(promises[h])
    /\ promises[h][k].state = Pending
    /\ ContentRequest(h, k) \in net
    /\ \/ /\ r.kind = "ok"
          /\ net' = net \ {ContentRequest(h, k)}
          /\ promises' = [promises EXCEPT ![h][k] =
                            [state |-> "fulfilled",
                             url |-> ItemResult(@.url, r).url,
                             content |-> ItemResult(@.url, r).content]]
          /\ fetched' = [fetched EXCEPT ![h][Position(h, k)] =
                            [n |-> @.n, kind |-> r.kind, body |-> r.body]]
       \/ /\ r.kind # "ok"
          /\ fetched' = [fetched EXCEPT ![h][Position(h, k)].n = @ + 1]
          /\ UNCHANGED <<net, promises>>
    /\ UNCHANGED <<chunkVars, enqueueVars>>
    /\ UNCHANGED <<batch, pc, mi, listing, userData, selected, urlChunks, ci,
                   contentMap, kv, answered, status, puts, calls>>

(* Mutant: a fetch that throws never settles its promise. *)
FetchResolve_HangOnThrow(h, k, r) ==
    /\ pc[h] = "await"
    /\ k \in 1..Len(promises[h])
    /\ promises[h][k].state = Pending
    /\ ContentRequest(h, k) \in net
    /\ net' = net \ {ContentRequest(h, k)}
    /\ promises' = IF r.kind = "throw" THEN promises
                   ELSE [promises EXCEPT ![h][k] =
                      [state |-> "fulfilled",
                       url |-> ItemResult(@.url, r).url,
                       content |-> ItemResult(@.url, r).content]]
    /\ fetched' = [fetched EXCEPT ![h][Position(h, k)] =
                      [n |-> @.n, kind |-> r.kind, body |-> r.body]]
    /\ UNCHANGED <<chunkVars, enqueueVars>>
    /\ UNCHANGED <<batch, pc, mi, listing, userData, selected, urlChunks, ci,
                   contentMap, kv, answered, status, puts, calls>>

(* Lines 110-125: one content fetch resolves and its callback returns. *)
FetchResolve(h, k, r) ==
    /\ pc[h] = "await"
    /\ k \in 1..Len(promises[h])
    /\ promises[h][k].state = Pending
    /\ ContentRequest(h, k) \in net
    /\ net' = net \ {ContentRequest(h, k)}
    /\ promises' = [promises EXCEPT ![h][k] =
                      [state |-> "fulfilled",
                       url |-> ItemResult(@.url, r).url,
                       content |-> ItemResult(@.url, r).content]]
    /\ fetched' = [fetched EXCEPT ![h][Position(h, k)] =
                      [n |-> @.n, kind |-> r.kind, body |-> r.body]]
    /\ UNCHANGED <<chunkVars, enqueueVars>>
    /\ UNCHANGED <<batch, pc, mi, listing, userData, selected, urlChunks, ci,
                   contentMap, kv, answered, status, puts, calls>>

(* Mutant: the handler goes on as soon as one promise of the group settles. *)
AllResolved_Race(h) ==
    /\ pc[h] = "await"
    /\ \E k \in 1..Len(promises[h]) : promises[h][k].state = "fulfilled"
    /\ contentMap' = [contentMap EXCEPT ![h] =
                        FoldResults(@, [k \in 1..Len(promises[h]) |->
                            [url |-> promises[h][k].url,
                             content |-> promises[h][k].content]])]
    /\ ci' = [ci EXCEPT ![h] = @ + 1]
    /\ pc' = [pc EXCEPT ![h] = "chunks"]
    /\ UNCHANGED <<chunkVars, enqueueVars>>
    /\ UNCHANGED <<batch, mi, listing, userData, selected, urlChunks, promises,
                   kv, net, answered, status, fetched, puts, calls>>

(* Lines 128-136: Promise.all resolves and the results are folded in. *)
AllResolved(h) ==
    /\ pc[h] = "await"
    /\ \A k \in 1..Len(promises[h]) : promises[h][k].state = "fulfilled"
    /\ contentMap' = [contentMap EXCEPT ![h] =
                        FoldResults(@, [k \in 1..Len(promises[h]) |->
                            [url |-> promises[h][k].url,
                             content |-> promises[h][k].content]])]
    /\ ci' = [ci EXCEPT ![h] = @ + 1]
    /\ pc' = [pc EXCEPT ![h] = "chunks"]
    /\ UNCHANGED <<chunkVars, enqueueVars>>
    /\ UNCHANGED <<batch, mi, listing, userData, selected, urlChunks, promises,
                   kv, net, answered, status, fetched, puts, calls>>

(* Mutant: the put is not awaited; the loop goes on while it is in flight. *)
StartPut_NoAwait(h) ==
    /\ pc[h] = "chunks"
    /\ ci[h] > Len(urlChunks[h])
    /\ net' = net \cup {PutRequest(h)}
    /\ calls' = [calls EXCEPT ![h].put = @ + 1]
    /\ MessageEnd(h, "stored")
    /\ UNCHANGED <<chunkVars, enqueueVars>>
    /\ UNCHANGED <<batch, listing, userData, selected, urlChunks, ci, promises,
                   contentMap, kv, answered, fetched, puts>>

(* Mutant: an empty map is not written; the message ends without a put. *)
StartPut_SkipEmpty(h) ==
    /\ pc[h] = "chunks"
    /\ ci[h] > Len(urlChunks[h])
    /\ \/ /\ contentMap[h] # <<>>
          /\ net' = net \cup {PutRequest(h)}
          /\ pc' = [pc EXCEPT ![h] = "put"]
          /\ calls' = [calls EXCEPT ![h].put = @ + 1]
          /\ UNCHANGED <<mi, status>>
       \/ /\ contentMap[h] = <<>>
          /\ MessageEnd(h, "skipped")
          /\ UNCHANGED <<net, calls>>
    /\ UNCHANGED <<chunkVars, enqueueVars>>
    /\ UNCHANGED <<batch, listing, userData, selected, urlChunks, ci, promises,
                   contentMap, kv, answered, fetched, puts>>

(* Lines 138-141: the groups are exhausted; the map is serialized and put. *)
StartPut(h) ==
    /\ pc[h] = "chunks"
    /\ ci[h] > Len(urlChunks[h])
    /\ net' = net \cup {PutRequest(h)}
    /\ pc' = [pc EXCEPT ![h] = "put"]
    /\ UNCHANGED <<chunkVars, enqueueVars>>
    /\ UNCHANGED <<batch, mi, listing, userData, selected, urlChunks, ci, promises,
                   contentMap, kv, answered, status, fetched, puts>>
    /\ calls' = [calls EXCEPT ![h].put = @ + 1]

(* Line 141: the store performs the put. *)
PutOk(h) ==
    /\ pc[h] = "put"
    /\ \E q \in net :
         /\ q.inv = h /\ q.kind = "put"
         /\ kv' = KVPut(kv, q.target, q.value)
         /\ puts' = Append(puts, [inv |-> h, msg |-> q.msg, key |-> q.target,
                                  value |-> q.value])
         /\ net' = net \ {q}
    /\ MessageEnd(h, "stored")
    /\ UNCHANGED <<chunkVars, enqueueVars>>
    /\ UNCHANGED <<answered, batch, listing, userData, selected, urlChunks, ci,
                   promises,
                   contentMap, fetched, calls>>

(* Lines 141, 147-149: the put throws; the catch logs and the loop goes on. *)
PutFail(h) ==
    /\ pc[h] = "put"
    /\ \E q \in net :
         /\ q.inv = h /\ q.kind = "put"
         /\ net' = net \ {q}
    /\ MessageEnd(h, "putFailed")
    /\ UNCHANGED <<chunkVars, enqueueVars>>
    /\ UNCHANGED <<answered, batch, listing, userData, selected, urlChunks, ci,
                   promises,
                   contentMap, kv, fetched, puts, calls>>

(* The answers the environment may give to the request h awaits. *)
ListingAnswers(h) ==
    IF pc[h] = "listing" THEN ListingService(batch[h][mi[h]]) ELSE {}

ContentAnswers(h, k) ==
    IF pc[h] = "await" /\ k \in 1..Len(promises[h]) THEN Web(promises[h][k].url) ELSE {}

Next ==
    \/ \E h \in Invocations : BeginMessage(h)
    \/ \E h \in Invocations : Return(h)
    \/ \E h \in Invocations : \E r \in ListingAnswers(h) : ListingOk(h, r)
    \/ \E h \in Invocations : \E r \in ListingAnswers(h) : ListingFail(h, r)
    \/ \E h \in Invocations : StartChunk(h)
    \/ \E h \in Invocations : \E k \in 1..FetchGroupSize :
          \E r \in ContentAnswers(h, k) : FetchResolve(h, k, r)
    \/ \E h \in Invocations : AllResolved(h)
    \/ \E h \in Invocations : StartPut(h)
    \/ \E h \in Invocations : PutOk(h)
    \/ \E h \in Invocations : PutFail(h)

Spec == Init /\ [][Next]_vars

(* Every request is eventually answered and the runtime runs a handler     *)
(* whose await has been answered: a step that can be taken is taken.       *)
LiveBatches == { <<>>, <<"alice">>, <<"bob">>, <<"alice", "alice">> }

InitLive == Init /\ batch["q1"] \in LiveBatches

SpecLive == InitLive /\ [][Next]_vars /\ WF_vars(Next)

-----------------------------------------------------------------------------
(* Two invocations of the queue handler that overlap: the queue service    *)
(* delivered two batches and both handlers run, their awaits interleaving. *)

OverlapBatches == { <<"alice">> }

InitOverlap ==
    /\ InitHandlers(Invocations)
    /\ \A h \in Invocations : batch[h] \in OverlapBatches
    /\ ChunkIdle
    /\ EnqueueOff

SpecOverlap == InitOverlap /\ [][Next]_vars

-----------------------------------------------------------------------------
(* chunkArray applied to arbitrary arrays and positive sizes *)

ChunkAlphabet == {"p", "q"}

RECURSIVE SeqsUpTo(_)
SeqsUpTo(n) ==
    IF n = 0 THEN {<<>>}
    ELSE SeqsUpTo(n - 1) \cup
         {Append(s, e) : s \in {t \in SeqsUpTo(n - 1) : Len(t) = n - 1}, e \in ChunkAlphabet}

InitChunk ==
    /\ InitHandlers({})
    /\ cArray \in SeqsUpTo(MaxSeqLen)
    /\ cSize \in 1..MaxChunkSize
    /\ cChunks = <<>>
    /\ cPc = "call"
    /\ EnqueueOff

ChunkCall ==
    /\ cPc = "call"
    /\ cChunks' = chunkArray(cArray, cSize)
    /\ cPc' = "returned"
    /\ UNCHANGED <<cArray, cSize>>
    /\ UNCHANGED <<handlerVars, enqueueVars>>

NextChunk == ChunkCall

SpecChunk == InitChunk /\ [][NextChunk]_vars

-----------------------------------------------------------------------------
(* The enqueue step: the HTTP handler and the scheduled handler both await *)
(* queueUsers, which fetches the user listing and sends one message per    *)
(* username. One run at a time is modelled.                                *)

CREDENTIALS == "s3cret"

(* url.searchParams.get("secret"): the parameter, or null when absent *)
RequestSecrets == {"s3cret", "wrong", Null}

(* What https://xymake.com/users.json may answer. *)
UsersService ==
    { OkResponse(<<"alice", "bob", "alice">>), OkResponse(<<>>),
      StatusResponse(<<>>), ThrowResponse(<<>>) }

MaxTriggers == 2

RunningBody == "Running schedule now. tail it!"

WorkerBody == "Worker is running. Check logs for schedule and queue processing."

InitEnqueue ==
    /\ InitHandlers({})
    /\ ChunkIdle
    /\ epc = "idle"
    /\ via = "none"
    /\ users = <<>>
    /\ ui = 1
    /\ queue = <<>>
    /\ triggers = 0
    /\ runs = <<>>
    /\ responses = <<>>

(* Lines 22-25: queueUsers is called and fetches the user listing. *)
StartRun(how, secret) ==
    /\ epc' = "users"
    /\ via' = how
    /\ runs' = Append(runs, [via |-> how, secret |-> secret, fetches |-> 1,
                             answer |-> "none", listing |-> <<>>, sends |-> 0,
                             sendFailed |-> FALSE, base |-> Len(queue)])
    /\ triggers' = triggers + 1
    /\ UNCHANGED <<users, ui, queue, responses>>

(* queueUsers returns (lines 40-44) and the handler awaiting it goes on:   *)
(* the HTTP handler answers (line 57), the scheduled handler returns.      *)
FinishRun ==
    /\ epc' = "idle"
    /\ via' = "none"
    /\ responses' = IF via = "http" THEN Append(responses, RunningBody) ELSE responses

(* Mutant: the secret is not compared; every request starts a run. *)
HttpFetch_NoCheck(secret) ==
    /\ epc = "idle"
    /\ triggers < MaxTriggers
    /\ StartRun("http", secret)
    /\ UNCHANGED <<handlerVars, chunkVars>>

(* Lines 48-65: an HTTP request arrives. *)
HttpFetch(secret) ==
    /\ epc = "idle"
    /\ triggers < MaxTriggers
    /\ IF CREDENTIALS = secret
       THEN StartRun("http", secret)
       ELSE /\ responses' = Append(responses, WorkerBody)
            /\ triggers' = triggers + 1
            /\ UNCHANGED <<epc, via, users, ui, queue, runs>>
    /\ UNCHANGED <<handlerVars, chunkVars>>

(* Lines 68-75: the daily schedule fires. *)
Scheduled ==
    /\ epc = "idle"
    /\ triggers < MaxTriggers
    /\ StartRun("scheduled", Null)
    /\ UNCHANGED <<handlerVars, chunkVars>>

(* Lines 27-34: the user listing arrived with a success status and parsed. *)
UsersOk(r) ==
    /\ epc = "users"
    /\ r.kind = "ok"
    /\ users' = r.body
    /\ ui' = 1
    /\ epc' = "loop"
    /\ runs' = [runs EXCEPT ![Len(runs)].answer = r.kind,
                            ![Len(runs)].listing = r.body]
    /\ UNCHANGED <<via, queue, triggers, responses>>
    /\ UNCHANGED <<handlerVars, chunkVars>>

(* Lines 25-31, 41-43: the fetch threw or its status was not ok; the catch *)
(* logs and queueUsers returns.                                            *)
UsersFail(r) ==
    /\ epc = "users"
    /\ r.kind # "ok"
    /\ runs' = [runs EXCEPT ![Len(runs)].answer = r.kind]
    /\ FinishRun
    /\ UNCHANGED <<users, ui, queue, triggers>>
    /\ UNCHANGED <<handlerVars, chunkVars>>

(* Mutant: a username already sent in this run is skipped. *)
SendStart_Dedup ==
    /\ epc = "loop"
    /\ ui <= Len(users)
    /\ IF \E k \in (Last(runs).base + 1)..Len(queue) : queue[k].username = users[ui]
       THEN ui' = ui + 1 /\ UNCHANGED <<epc, runs>>
       ELSE /\ epc' = "send"
            /\ runs' = [runs EXCEPT ![Len(runs)].sends = @ + 1]
            /\ UNCHANGED ui
    /\ UNCHANGED <<via, users, queue, triggers, responses>>
    /\ UNCHANGED <<handlerVars, chunkVars>>

(* Lines 37-38: the loop takes the next username and sends its message. *)
SendStart ==
    /\ epc = "loop"
    /\ ui <= Len(users)
    /\ epc' = "send"
    /\ runs' = [runs EXCEPT ![Len(runs)].sends = @ + 1]
    /\ UNCHANGED <<via, users, ui, queue, triggers, responses>>
    /\ UNCHANGED <<handlerVars, chunkVars>>

(* Lines 38-40: the queue took the message. *)
SendOk ==
    /\ epc = "send"
    /\ queue' = Append(queue, [username |-> users[ui]])
    /\ ui' = ui + 1
    /\ epc' = "loop"
    /\ UNCHANGED <<via, users, triggers, runs, responses>>
    /\ UNCHANGED <<handlerVars, chunkVars>>

(* Lines 38, 41-43: the send threw; the catch logs and queueUsers returns. *)
SendFail ==
    /\ epc = "send"
    /\ runs' = [runs EXCEPT ![Len(runs)].sendFailed = TRUE]
    /\ FinishRun
    /\ UNCHANGED <<users, ui, queue, triggers>>
    /\ UNCHANGED <<handlerVars, chunkVars>>

(* Lines 37, 40-44: the loop is exhausted and queueUsers returns. *)
LoopEnd ==
    /\ epc = "loop"
    /\ ui > Len(users)
    /\ FinishRun
    /\ UNCHANGED <<users, ui, queue, triggers, runs>>
    /\ UNCHANGED <<handlerVars, chunkVars>>

UsersAnswers == IF epc = "users" THEN UsersService ELSE {}

NextEnqueue ==
    \/ \E secret \in RequestSecrets : HttpFetch(secret)
    \/ Scheduled
    \/ \E r \in UsersAnswers : UsersOk(r)
    \/ \E r \in UsersAnswers : UsersFail(r)
    \/ SendStart
    \/ SendOk
    \/ SendFail
    \/ LoopEnd

SpecEnqueue == InitEnqueue /\ [][NextEnqueue]_vars

-----------------------------------------------------------------------------
(* Properties *)

ContentInFlight(h) == {q \in net : q.inv = h /\ q.kind = "content"}

(* C1: during an invocation of the queue handler at most 5 content fetches  *)
(* are started and unresolved at any instant, and the fetches in flight at  *)
(* the same instant belong to the same group of the same message.          *)
C1_ConcurrencyBound ==
    \A h \in Invocations :
        /\ Cardinality(ContentInFlight(h)) <= 5
        /\ \A a, b \in ContentInFlight(h) : a.msg = b.msg /\ a.grp = b.grp

(* C1 witness: five fetches of the third group of a 25-url selection are in flight. *)
C1_Witness ==
    \E h \in Invocations :
        /\ Cardinality(ContentInFlight(h)) = 5
        /\ Len(selected[h]) = 25
        /\ \A q \in ContentInFlight(h) : q.grp = 3

(* C2: within one message no fetch of a group is started while a fetch of   *)
(* an earlier group is unresolved; a fetch leaves flight only by settling   *)
(* its own promise, one at a time, the other fetches of the group staying   *)
(* in flight; and the handler leaves the wait for a group only when every   *)
(* fetch of the group has resolved, to go on with the next group.           *)
C2_GroupsSequential ==
    [][\A h \in Invocations :
        /\ (\E q \in net' \ net : q.inv = h /\ q.kind = "content")
              => ContentInFlight(h) = {}
        /\ \A q \in ContentInFlight(h) :
              q \notin net' =>
                /\ promises'[h][q.pos].state = "fulfilled"
                /\ promises'[h][q.pos].url = q.target
                /\ \A o \in ContentInFlight(h) \ {q} :
                      o \in net' /\ promises'[h][o.pos] = promises[h][o.pos]
        /\ (pc[h] = "await" /\ pc'[h] # "await")
              => ContentInFlight(h) = {} /\ pc'[h] = "chunks" /\ ci'[h] = ci[h] + 1
      ]_vars

(* C2 witness: the second group is in flight after a first group in which   *)
(* one fetch failed and another succeeded.                                  *)
C2_Witness ==
    \E h \in Invocations :
        /\ pc[h] = "await" /\ ci[h] = 2
        /\ ContentInFlight(h) # {}
        /\ \E p1, p2 \in 1..5 :
              /\ fetched[h][p1].kind \in {"status", "throw"}
              /\ fetched[h][p2].kind = "ok"

(* The stored text read back: the entries of { k : v , k : v } *)
JsonEntryCount(text) == IF Len(text) = 2 THEN 0 ELSE (Len(text) - 1) \div 4

JsonKey(text, e) == text[4 * (e - 1) + 2]

JsonValue(text, e) == text[4 * (e - 1) + 4]

JsonKeys(text) == {JsonKey(text, e) : e \in 1..JsonEntryCount(text)}

(* Invocation h has just had the put of its previous message performed. *)
JustStored(h) == pc[h] = "loop" /\ mi[h] > 1 /\ status[h][mi[h] - 1] = "stored"

(* The put the store performed for message j of invocation h. *)
PutOf(h, j) ==
    puts[CHOOSE n \in 1..Len(puts) : puts[n].inv = h /\ puts[n].msg = j]

WasPut(h, j) == \E n \in 1..Len(puts) : puts[n].inv = h /\ puts[n].msg = j

Running(h) == pc[h] \notin {"idle", "done"}

(* C3: a failed listing fetch or a failed put of one message never leaves   *)
(* the handler: every message before the loop's position has ended, a       *)
(* message whose listing succeeded had its put issued, a handler that has   *)
(* not returned can take a step, and a returned handler has fetched the     *)
(* listing of every message of its batch.                                   *)
C3_BatchIsolation ==
    /\ \A h \in Invocations :
        /\ pc[h] # "raised"
        /\ Len(status[h]) = mi[h] - 1
        /\ pc[h] = "done" =>
              Len(answered[h]) = Len(batch[h]) /\ Len(status[h]) = Len(batch[h])
        /\ \A j \in 1..Len(status[h]) :
              /\ answered[h][j] = "ok" <=> status[h][j] \in {"stored", "putFailed"}
              /\ status[h][j] = "stored" <=> WasPut(h, j)
    /\ (\E h \in Invocations : Running(h)) => ENABLED Next

(* C3 witness: a batch of three returned after the put of the first failed, *)
(* the listing of the second failed and the third was stored.               *)
C3_Witness ==
    \E h \in Invocations :
        /\ pc[h] = "done"
        /\ status[h] = <<"putFailed", "listingFailed", "stored">>

Resolved(h) == \A p \in 1..Len(fetched[h]) : fetched[h][p].kind \in {"ok", "status", "throw"}

OkPositions(h) == {p \in 1..Len(fetched[h]) : fetched[h][p].kind = "ok"}

(* The text is a snapshot of exactly the urls of h's selection whose fetch  *)
(* succeeded, each with the body a successful fetch of it returned.         *)
SnapshotOfSuccesses(h, text) ==
    /\ JsonKeys(text) = {selected[h][p].url : p \in OkPositions(h)}
    /\ JsonEntryCount(text) = Cardinality(JsonKeys(text))
    /\ \A e \in 1..JsonEntryCount(text) :
          \E p \in OkPositions(h) :
              /\ selected[h][p].url = JsonKey(text, e)
              /\ fetched[h][p].body = JsonValue(text, e)

(* C4: when the put of a message is issued, and when it has been performed, *)
(* every fetch of the selection has resolved and the text written holds     *)
(* exactly the urls whose fetch succeeded, each with its fetched body; urls *)
(* whose fetch got a non-success status or threw are left out; and no       *)
(* failed content fetch keeps a message whose listing succeeded from its    *)
(* put.                                                                     *)
C4_SnapshotOfSuccesses ==
    \A h \in Invocations :
        /\ \A q \in net : q.inv = h /\ q.kind = "put" =>
              Resolved(h) /\ SnapshotOfSuccesses(h, q.value)
        /\ JustStored(h) =>
              Resolved(h) /\ SnapshotOfSuccesses(h, PutOf(h, mi[h] - 1).value)
        /\ (pc[h] = "chunks" /\ ci[h] > Len(urlChunks[h])) => Resolved(h)
        /\ pc[h] # "raised"

(* C4 witness: a snapshot was stored for a selection of more than five urls *)
(* of which one got a non-success status, one threw and the rest succeeded. *)
C4_Witness ==
    \E h \in Invocations :
        /\ JustStored(h)
        /\ Len(selected[h]) > 5
        /\ \E p \in 1..Len(fetched[h]) : fetched[h][p].kind = "status"
        /\ \E p \in 1..Len(fetched[h]) : fetched[h][p].kind = "throw"
        /\ JsonEntryCount(PutOf(h, mi[h] - 1).value) = Len(selected[h]) - 2

(* The step in which the listing fetch of h's current message fails. *)
ListingFailedStep(h) ==
    /\ Len(answered'[h]) = Len(answered[h]) + 1
    /\ Last(answered'[h]) \in {"status", "throw"}

(* C5: when the listing fetch of a message gets a non-success status or     *)
(* throws, the store and the puts performed are unchanged, the invocation   *)
(* has no request in flight, and the loop stands at the next message;       *)
(* every request an invocation has in flight is for its current message.    *)
C5_ListingFailureSkips ==
    [][\A h \in Invocations :
        /\ ListingFailedStep(h) =>
              /\ kv' = kv
              /\ puts' = puts
              /\ {q \in net' : q.inv = h} = {}
              /\ pc'[h] = "loop"
              /\ mi'[h] = mi[h] + 1
              /\ fetched'[h] = fetched[h]
        /\ \A q \in net' : q.inv = h => q.msg = mi'[h]
      ]_vars

(* C5 witness: the second message for a username failed at its listing and *)
(* the store still holds what the first message wrote.                      *)
C5_Witness ==
    \E h \in Invocations :
        /\ pc[h] = "done"
        /\ status[h] = <<"stored", "listingFailed">>
        /\ Len(puts) = 1
        /\ kv[StorageKey(batch[h][2])] = puts[1].value
        /\ JsonEntryCount(puts[1].value) = 2

(* The entry bound of the message invocation h works on. *)
EntryBound(h) == Min(25, Len(listing[h]))

(* C6: the mapping being built for a message, the text handed to the put    *)
(* and the text the store holds after the put have at most                  *)
(* min(25, length of the message's listing) entries.                        *)
C6_SnapshotSizeBound ==
    \A h \in Invocations :
        /\ Len(contentMap[h]) <= EntryBound(h)
        /\ \A q \in net : q.inv = h /\ q.kind = "put" =>
              JsonEntryCount(q.value) <= EntryBound(h)
        /\ JustStored(h) => JsonEntryCount(PutOf(h, mi[h] - 1).value) <= EntryBound(h)

(* C6 witness: 25 entries were stored for a listing of more than 25 urls. *)
C6_Witness ==
    \E h \in Invocations :
        /\ JustStored(h)
        /\ Len(listing[h]) > 25
        /\ Len(contentMap[h]) = 25
        /\ JsonEntryCount(PutOf(h, mi[h] - 1).value) = 25

SelectedUrls(h) == {selected[h][p].url : p \in 1..Len(selected[h])}

(* C7: every key of the mapping being built is a url of the selection of    *)
(* the message the invocation works on.                                     *)
C7_KeysFromSelection ==
    \A h \in Invocations :
        \A k \in 1..Len(contentMap[h]) : contentMap[h][k].url \in SelectedUrls(h)

(* C7 witness: a later message of a batch is building its mapping, and an   *)
(* earlier message of the batch stored a url that is not in the later       *)
(* message's selection.                                                     *)
C7_Witness ==
    \E h \in Invocations :
        /\ mi[h] > 1
        /\ pc[h] = "put"
        /\ contentMap[h] # <<>>
        /\ \E j \in 1..(mi[h] - 1) :
              /\ WasPut(h, j)
              /\ \E u \in JsonKeys(PutOf(h, j).value) : u \notin SelectedUrls(h)

(* C8: the selection is the listing taken from its end backwards and cut    *)
(* to 25: element k of the selection is element n-k+1 of a listing of n     *)
(* elements, there are min(n, 25) of them, and every content fetch in       *)
(* flight is for the url at its position of the selection.                  *)
C8_ReverseThenTruncate ==
    \A h \in Invocations :
        /\ Len(selected[h]) = Min(Len(listing[h]), 25)
        /\ \A k \in 1..Len(selected[h]) :
              selected[h][k] = listing[h][Len(listing[h]) - k + 1]
        /\ \A q \in ContentInFlight(h) :
              q.target = selected[h][(q.grp - 1) * 5 + q.pos].url

(* C8 witness: a listing of more than 25 urls whose last group is in        *)
(* flight: the selection starts at the listing's last url and differs from  *)
(* the reversal of the first 25.                                            *)
C8_Witness ==
    \E h \in Invocations :
        /\ Len(listing[h]) > 25
        /\ pc[h] = "await" /\ ci[h] = 5
        /\ selected[h][1] = listing[h][Len(listing[h])]
        /\ selected[h] # Reverse(SubSeq(listing[h], 1, 25))

RECURSIVE Concat(_)
Concat(seqs) == IF seqs = <<>> THEN <<>> ELSE Head(seqs) \o Concat(Tail(seqs))

(* C9: for every array and positive size the chunks of chunkArray           *)
(* concatenate to the array, every chunk but the last has exactly `size`    *)
(* elements, the last has between 1 and `size`, and the empty array has no  *)
(* chunks.                                                                  *)
C9_ChunkConservation ==
    cPc = "returned" =>
        /\ Concat(cChunks) = cArray
        /\ \A j \in 1..Len(cChunks) :
              /\ j < Len(cChunks) => Len(cChunks[j]) = cSize
              /\ Len(cChunks[j]) >= 1 /\ Len(cChunks[j]) <= cSize
        /\ cArray = <<>> => cChunks = <<>>

(* C9 witness: an array split into two full chunks and a shorter last one. *)
C9_Witness ==
    /\ cPc = "returned"
    /\ Len(cChunks) = 3
    /\ cSize = 2
    /\ Len(cChunks[3]) = 1

(* The last put performed on a key. *)
LastPutOn(key) ==
    puts[CHOOSE n \in 1..Len(puts) :
            /\ puts[n].key = key
            /\ \A m \in (n + 1)..Len(puts) : puts[m].key # key]

(* C10: a key that was put holds exactly the text of the last put on it,    *)
(* whatever it held before; a key never put holds its prior value.          *)
C10_PutReplaces ==
    /\ DOMAIN kv = DOMAIN PriorStore \cup {puts[n].key : n \in 1..Len(puts)}
    /\ \A key \in DOMAIN kv :
          IF \E n \in 1..Len(puts) : puts[n].key = key
          THEN kv[key] = LastPutOn(key).value
          ELSE kv[key] = PriorStore[key]

(* C10 witness: two successive puts for one username, the first with two    *)
(* entries and the second with none, leave the store holding the second.    *)
C10_Witness ==
    /\ Len(puts) = 2
    /\ puts[1].key = puts[2].key
    /\ JsonEntryCount(puts[1].value) = 2
    /\ puts[2].value = <<"{", "}">>
    /\ kv[puts[2].key] = <<"{", "}">>

(* C11: with two overlapping invocations every key of the store holds its  *)
(* prior value until it is put and from then on exactly the text of the    *)
(* put performed last on it; every text put is the complete snapshot of    *)
(* the one invocation that issued it (its own map, made of its own         *)
(* successful fetches), never a mixture with the other invocation's.       *)
C11_LastWriteWins ==
    /\ \A key \in DOMAIN kv :
          IF \E n \in 1..Len(puts) : puts[n].key = key
          THEN kv[key] = LastPutOn(key).value
          ELSE key \in DOMAIN PriorStore /\ kv[key] = PriorStore[key]
    /\ \A n \in 1..Len(puts) :
          puts[n].msg = Len(answered[puts[n].inv]) =>
            /\ puts[n].value = JSONstringify(contentMap[puts[n].inv])
            /\ SnapshotOfSuccesses(puts[n].inv, puts[n].value)

(* C11 witness: both invocations put different snapshots on the same key,  *)
(* q2 first and q1 last, and the store holds q1's, which lacks an entry    *)
(* of q2's.                                                                 *)
C11_Witness ==
    /\ Len(puts) = 2
    /\ puts[1].inv = "q2" /\ puts[2].inv = "q1"
    /\ puts[1].key = puts[2].key
    /\ kv[puts[2].key] = puts[2].value
    /\ \E u \in JsonKeys(puts[1].value) : u \notin JsonKeys(puts[2].value)

(* The latest listing answer invocation h got was an empty array. *)
EmptyListing(h) ==
    /\ answered[h] # <<>>
    /\ Last(answered[h]) = "ok"
    /\ listing[h] = <<>>

PutsOf(h, j) == {n \in 1..Len(puts) : puts[n].inv = h /\ puts[n].msg = j}

(* C12: a message whose listing is an empty array has no content fetch     *)
(* (none in flight, none counted, no group) and goes straight to one put   *)
(* of the text {} on "daily/" + username; once the message has ended its   *)
(* put was issued, and unless the store failed it the store performed      *)
(* exactly one put for the message, of {} on that key.                     *)
C12_EmptyListingWritten ==
    \A h \in Invocations :
        EmptyListing(h) =>
            LET j == Len(answered[h])
                key == "daily/" \o batch[h][j]
            IN  /\ urlChunks[h] = <<>> /\ fetched[h] = <<>>
                /\ mi[h] = j =>
                      /\ pc[h] \in {"chunks", "put"}
                      /\ ContentInFlight(h) = {}
                      /\ PutsOf(h, j) = {}
                      /\ pc[h] = "put" =>
                            \E q \in net :
                                /\ q.inv = h /\ q.kind = "put"
                                /\ q.target = key
                                /\ q.value = <<"{", "}">>
                /\ mi[h] > j =>
                      /\ status[h][j] \in {"stored", "putFailed"}
                      /\ status[h][j] = "putFailed" => PutsOf(h, j) = {}
                      /\ status[h][j] = "stored" =>
                            /\ Cardinality(PutsOf(h, j)) = 1
                            /\ PutOf(h, j).key = key
                            /\ PutOf(h, j).value = <<"{", "}">>

(* C12 witness: the message of a username with an empty listing has ended  *)
(* and the store holds {} at the username's key, in place of the prior     *)
(* value.                                                                  *)
C12_Witness ==
    \E h \in Invocations :
        /\ EmptyListing(h)
        /\ JustStored(h)
        /\ mi[h] = 2
        /\ kv["daily/" \o batch[h][1]] = <<"{", "}">>
        /\ PriorStore["daily/" \o batch[h][1]] # <<"{", "}">>

(* C13: a step changes the store at no key, or performs one put, by an      *)
(* invocation standing at its put, on the key "daily/" + the username of   *)
(* its current message, every other key keeping its value; no key is ever  *)
(* removed; and the store performs at most one put per message, on the     *)
(* key of that message's username.                                         *)
C13_WriteFrame ==
    [][ /\ DOMAIN kv \subseteq DOMAIN kv'
        /\ \A key \in DOMAIN kv' :
              (key \notin DOMAIN kv \/ kv'[key] # kv[key]) =>
                \E h \in Invocations :
                    /\ pc[h] = "put" /\ pc'[h] = "loop" /\ mi'[h] = mi[h] + 1
                    /\ key = "daily/" \o batch[h][mi[h]]
        /\ Len(puts') <= Len(puts) + 1
        /\ \A n \in 1..Len(puts') :
              /\ puts'[n].key = "daily/" \o batch[puts'[n].inv][puts'[n].msg]
              /\ \A m \in 1..Len(puts') :
                    (puts'[m].inv = puts'[n].inv /\ puts'[m].msg = puts'[n].msg) => m = n
      ]_vars

(* C13 witness: two messages for different usernames were stored; the key  *)
(* of the first still holds what the first wrote and a third key its prior *)
(* value.                                                                   *)
C13_Witness ==
    /\ Len(puts) = 2
    /\ puts[1].key # puts[2].key
    /\ kv[puts[1].key] = puts[1].value
    /\ kv[puts[2].key] = puts[2].value
    /\ \E key \in DOMAIN kv \ {puts[1].key, puts[2].key} : kv[key] = PriorStore[key]

InFlight(h) == {q \in net : q.inv = h}

(* C14: an invocation has requests in flight only for the message its loop *)
(* stands at: one listing fetch while it awaits the listing; only content  *)
(* fetches, after an ok listing answer, while it awaits a group; one put,  *)
(* with every content fetch of the message resolved, while it awaits the   *)
(* put; and none at the loop head, between groups and after it returned.   *)
(* Messages end one after another, each before the next listing fetch.     *)
C14_SequentialAwaited ==
    \A h \in Invocations :
        /\ \A q \in InFlight(h) : q.msg = mi[h]
        /\ pc[h] \in {"idle", "loop", "chunks", "done"} => InFlight(h) = {}
        /\ pc[h] = "listing" =>
              /\ Cardinality(InFlight(h)) = 1
              /\ \A q \in InFlight(h) : q.kind = "listing" /\ q.target = batch[h][mi[h]]
        /\ pc[h] = "await" => \A q \in InFlight(h) : q.kind = "content"
        /\ pc[h] = "put" =>
              /\ Cardinality(InFlight(h)) = 1
              /\ \A q \in InFlight(h) : q.kind = "put"
              /\ Resolved(h)
        /\ Len(status[h]) = mi[h] - 1
        /\ Len(answered[h]) = IF pc[h] \in {"chunks", "await", "put"} THEN mi[h] ELSE mi[h] - 1
        /\ pc[h] \in {"chunks", "await", "put"} => Last(answered[h]) = "ok"
        /\ pc[h] = "done" => mi[h] = Len(batch[h]) + 1

(* C14 witness: the listing of the third message is in flight, alone,      *)
(* after the first message was stored and the second failed at its put.    *)
C14_Witness ==
    \E h \in Invocations :
        /\ pc[h] = "listing" /\ mi[h] = 3
        /\ status[h] = <<"stored", "putFailed">>
        /\ Cardinality(net) = 1

PutAttempts(h) ==
    Cardinality({j \in 1..Len(status[h]) : status[h][j] \in {"stored", "putFailed"}})

(* C15: an invocation has issued one listing fetch per message it has      *)
(* begun and one put per message that reached its put, whatever the        *)
(* answers were; every position of the selection has had its fetch started *)
(* at most once, exactly once when it has an answer, and every position    *)
(* exactly once when the put is issued, failed fetches included.           *)
C15_NoRetries ==
    \A h \in Invocations :
        /\ calls[h].listing =
              IF pc[h] \in {"listing", "chunks", "await", "put"} THEN mi[h] ELSE mi[h] - 1
        /\ calls[h].put = PutAttempts(h) + (IF pc[h] = "put" THEN 1 ELSE 0)
        /\ PutAttempts(h) <= Len(status[h])
        /\ \A p \in 1..Len(fetched[h]) :
              /\ fetched[h][p].n <= 1
              /\ fetched[h][p].n = 1 <=> fetched[h][p].kind # Unsent
        /\ (pc[h] = "put" \/ JustStored(h)) =>
              /\ Len(fetched[h]) = Len(selected[h])
              /\ \A p \in 1..Len(fetched[h]) : fetched[h][p].n = 1

(* C15 witness: a batch of two returned; the first listing failed and was  *)
(* not fetched again, the second message was stored with one url whose     *)
(* fetch failed, each url fetched once.                                    *)
C15_Witness ==
    \E h \in Invocations :
        /\ pc[h] = "done"
        /\ status[h] = <<"listingFailed", "stored">>
        /\ calls[h] = [listing |-> 2, put |-> 1]
        /\ Len(fetched[h]) = 2
        /\ \E p \in 1..2 : fetched[h][p].kind = "status"
        /\ \A p \in 1..2 : fetched[h][p].n = 1

(* The messages one run of queueUsers put on the queue. *)
RunDone(n) == n < Len(runs) \/ epc = "idle"

SentBy(n) ==
    SubSeq(queue, runs[n].base + 1,
           IF n < Len(runs) THEN runs[n + 1].base ELSE Len(queue))

Messages(us) == [k \in 1..Len(us) |-> [username |-> us[k]]]

IsPrefix(s, t) == Len(s) <= Len(t) /\ s = SubSeq(t, 1, Len(s))

(* C16, as stated: every run of queueUsers fetches the user listing once;  *)
(* when the listing arrived it has, on return, sent exactly one message    *)
(* per identifier in listing order, and none when the listing failed.      *)
C16_OneMessagePerIdentifier ==
    \A n \in 1..Len(runs) :
        /\ runs[n].fetches = 1
        /\ (RunDone(n) /\ runs[n].answer = "ok")
               => SentBy(n) = Messages(runs[n].listing)
        /\ (RunDone(n) /\ runs[n].answer # "ok") => SentBy(n) = <<>>

(* C16, amended: every run of queueUsers fetches the user listing once and *)
(* returns to its caller; the messages it sent are a prefix of the listing *)
(* in listing order, duplicates included, each send attempted once; the    *)
(* prefix is the whole listing when no send threw, it stops before the     *)
(* first identifier whose send threw, and it is empty when the listing     *)
(* fetch failed.                                                           *)
C16_PrefixUntilSendThrows ==
    /\ epc \in {"idle", "users", "loop", "send"}
    /\ \A n \in 1..Len(runs) :
        /\ runs[n].fetches = 1
        /\ IsPrefix(SentBy(n), Messages(runs[n].listing))
        /\ runs[n].sends \in {Len(SentBy(n)), Len(SentBy(n)) + 1}
        /\ runs[n].answer # "ok" => (SentBy(n) = <<>> /\ runs[n].sends = 0)
        /\ (RunDone(n) /\ runs[n].answer = "ok" /\ ~runs[n].sendFailed)
               => (SentBy(n) = Messages(runs[n].listing)
                   /\ runs[n].sends = Len(runs[n].listing))
        /\ (RunDone(n) /\ runs[n].sendFailed)
               => runs[n].sends = Len(SentBy(n)) + 1

(* One run sent the whole listing with its duplicate, the next one stopped *)
(* at a send that threw, leaving two identifiers unsent.                   *)
C16_Witness ==
    /\ Len(runs) = 2
    /\ epc = "idle"
    /\ SentBy(1) = Messages(<<"alice", "bob", "alice">>)
    /\ runs[2].listing = <<"alice", "bob", "alice">>
    /\ runs[2].sendFailed
    /\ SentBy(2) = Messages(<<"alice">>)

(* C17: an enqueue run starts only from the scheduled trigger or from an   *)
(* HTTP request whose secret equals the credential; a request with another *)
(* secret is answered without any listing fetch or send; messages only     *)
(* reach the queue inside a run.                                           *)
C17_SecretGuardsEnqueue ==
    [][ /\ Len(runs') # Len(runs) =>
            /\ Len(runs') = Len(runs) + 1
            /\ epc = "idle"
            /\ \/ Last(runs').via = "scheduled"
               \/ Last(runs').via = "http" /\ Last(runs').secret = CREDENTIALS
        /\ (Len(responses') # Len(responses) /\ Last(responses') = WorkerBody) =>
            /\ epc = "idle" /\ epc' = "idle"
            /\ runs' = runs
            /\ queue' = queue
        /\ (epc' = "users" /\ epc # "users") => Len(runs') = Len(runs) + 1
        /\ queue' # queue => (epc = "send" /\ runs # <<>>)
      ]_vars

(* A request with a wrong secret was answered and nothing ran; then a      *)
(* request with the right secret ran the enqueue step to its end.          *)
C17_Witness ==
    /\ responses = <<WorkerBody, RunningBody>>
    /\ Len(runs) = 1
    /\ runs[1].via = "http"
    /\ runs[1].secret = CREDENTIALS
    /\ Len(queue) = 3

(* The positions of h's selection that bring a new key: a successful fetch *)
(* with no successful fetch of the same url at an earlier position.        *)
FirstOkPositions(h) ==
    {p \in OkPositions(h) :
        \A q \in OkPositions(h) : q < p => selected[h][q].url # selected[h][p].url}

(* The last position of the selection at which the url was fetched with    *)
(* success.                                                                *)
LastOkOf(h, url) ==
    CHOOSE p \in OkPositions(h) :
        /\ selected[h][p].url = url
        /\ \A q \in OkPositions(h) : selected[h][q].url = url => q <= p

KeyRank(h, p) == Cardinality({q \in FirstOkPositions(h) : q <= p})

(* The text is the one mapping the selection and the outcome at each of    *)
(* its positions determine: one entry per url fetched with success, in the *)
(* order of the first successful position, with the body of the last one.  *)
DeterminedSnapshot(h, text) ==
    /\ JsonEntryCount(text) = Cardinality(FirstOkPositions(h))
    /\ Len(text) = IF FirstOkPositions(h) = {} THEN 2
                   ELSE 4 * Cardinality(FirstOkPositions(h)) + 1
    /\ \A p \in FirstOkPositions(h) :
          /\ JsonKey(text, KeyRank(h, p)) = selected[h][p].url
          /\ JsonValue(text, KeyRank(h, p)) =
                fetched[h][LastOkOf(h, selected[h][p].url)].body

(* C18: whatever the order in which the fetches of a group completed, the  *)
(* text written for a message is the one determined by the selection and   *)
(* the outcome of the fetch at each position; for a url selected more than *)
(* once the successful outcome at the latest position is the one stored.   *)
C18_OrderIndependent ==
    \A h \in Invocations :
        /\ \A q \in net : q.inv = h /\ q.kind = "put" =>
              DeterminedSnapshot(h, q.value)
        /\ JustStored(h) => DeterminedSnapshot(h, PutOf(h, mi[h] - 1).value)

(* C18 witness: a selection with the same url at positions 1 and 3, both   *)
(* fetched with success and different bodies; the body of position 3 was   *)
(* stored.                                                                 *)
C18_Witness ==
    \E h \in Invocations :
        /\ JustStored(h)
        /\ Len(selected[h]) = 3
        /\ selected[h][1].url = selected[h][3].url
        /\ fetched[h][1].kind = "ok" /\ fetched[h][3].kind = "ok"
        /\ fetched[h][2].kind = "ok"
        /\ fetched[h][1].body # fetched[h][3].body
        /\ JsonEntryCount(PutOf(h, mi[h] - 1).value) = 2
        /\ JsonKey(PutOf(h, mi[h] - 1).value, 1) = selected[h][1].url
        /\ JsonValue(PutOf(h, mi[h] - 1).value, 1) = fetched[h][3].body

(* The occurrences of the username in h's batch whose listing fetch and    *)
(* put both succeeded.                                                     *)
StoredOccurrences(h, username) ==
    {j \in 1..Len(status[h]) :
        /\ batch[h][j] = username
        /\ answered[h][j] = "ok"
        /\ status[h][j] = "stored"}

MaxOf(S) == CHOOSE j \in S : \A i \in S : i <= j

KeyOf(username) == "daily/" \o username

(* C19: the messages of one batch never overlap: every request in flight   *)
(* belongs to the message the loop is at, and the store performs the puts  *)
(* in message order; so when the handler has returned, the key of each     *)
(* username of the batch holds the text put for its last occurrence whose  *)
(* listing fetch and put succeeded, and is untouched when there is none.   *)
C19_LastStoredOccurrence ==
    LET h == "q1" IN
    /\ \A q \in net : q.inv = h => q.msg = mi[h]
    /\ \A n \in 1..Len(puts) : \A m \in 1..Len(puts) :
          n < m => puts[n].msg < puts[m].msg
    /\ pc[h] = "done" =>
          \A i \in 1..Len(batch[h]) :
              LET username == batch[h][i]
                  S == StoredOccurrences(h, username)
              IN  IF S # {}
                  THEN /\ KeyOf(username) \in DOMAIN kv
                       /\ kv[KeyOf(username)] = PutOf(h, MaxOf(S)).value
                       /\ PutOf(h, MaxOf(S)).key = KeyOf(username)
                  ELSE IF KeyOf(username) \in DOMAIN PriorStore
                       THEN /\ KeyOf(username) \in DOMAIN kv
                            /\ kv[KeyOf(username)] = PriorStore[KeyOf(username)]
                       ELSE KeyOf(username) \notin DOMAIN kv

(* C19 witness: a batch with the same username twice has returned; both    *)
(* occurrences had their listing fetched, the first was stored with one    *)
(* entry, the put of the second failed, and the store holds the first.     *)
C19_Witness ==
    /\ pc["q1"] = "done"
    /\ batch["q1"] = <<"alice", "alice">>
    /\ status["q1"] = <<"stored", "putFailed">>
    /\ JsonEntryCount(PutOf("q1", 1).value) = 1
    /\ kv["daily/alice"] = PutOf("q1", 1).value

(* C20: when every listing fetch, content fetch and put is eventually      *)
(* answered, the handler eventually returns with every message of its      *)
(* batch brought to an end and no request left in flight; the division of  *)
(* each selection into groups of five is part of that run.                 *)
C20_HandlerReturns ==
    <>( /\ pc["q1"] = "done"
        /\ Len(status["q1"]) = Len(batch["q1"])
        /\ Len(answered["q1"]) = Len(batch["q1"])
        /\ net = {} )

(* C20 witness: the handler has returned from a batch whose selection was *)
(* divided into a group of five and a shorter last group, all fetched, and *)
(* stored.                                                                 *)
C20_Witness ==
    /\ pc["q1"] = "done"
    /\ batch["q1"] = <<"bob">>
    /\ status["q1"] = <<"stored">>
    /\ Len(urlChunks["q1"]) = 2
    /\ Len(urlChunks["q1"][1]) = FetchGroupSize
    /\ \A p \in 1..Len(fetched["q1"]) : fetched["q1"][p].kind \in {"ok", "status", "throw"}
    /\ net = {}

====
